---- MODULE Spec2Model ----
(***************************************************************************)
(* Proximity / navigation engine of the Pushkin bot (src/main.py).         *)
(*                                                                         *)
(* The state is the content of the sqlite database (.data/poi.sqlite): the *)
(* tables poi, visit_log, user_tracking, user_stats and user_interests,    *)
(* plus the clock and the reply of the last unit of work.  Every action is one Telegram       *)
(* handler, translated from its code with every store call it makes.       *)
(*                                                                         *)
(* Geometry.  Coordinates are metre offsets <<east, north>> from the point *)
(* (59.716 N, 30.395 E) of the spec's scenario.  haversine() is the        *)
(* great-circle distance in metres, rounded up to a whole metre (so that   *)
(* d <= k and d > k are exact for every whole threshold k); the SQL        *)
(* ranking expression of nearest()/find_nearest_unvisited() is the planar  *)
(* 111000*sqrt(dlat^2 + (0.6*dlon)^2), which at this latitude scales a     *)
(* metre north by 1.00 and a metre east by 1.19.                           *)
(*                                                                         *)
(* Time is counted in minutes.                                             *)
(***************************************************************************)
EXTENDS Integers, Sequences, FiniteSets, Bags, TLC

(* ------------------------------ constants ------------------------------ *)

RADIUS == 20

REVISIT_HOURS == 24

NEAR_THRESHOLD == 50

NOISE_FLOOR == 5

LIVE_LIMIT == 3

NEXT_LIMIT == 2

\* SQL NULL / Python None: in an id column, in a position, in a date, in a
\* direction; and the absence of a user's row.
NULL == 0

NoPos == << >>

NoDate == -1

NoGlyph == -1

NoRow == [row |-> FALSE]

(* -------------------------------- bounds ------------------------------- *)

\* The clock runs for MaxDay revisit windows.
MaxDay == 1

\* total_distance is followed up to MaxDistance metres.
MaxDistance == 40

\* A database kept from an earlier run holds at most MaxLog visit rows.
MaxLog == 1

\* The users the tables have rows for, and those that send updates.
AllUsers == {1, 2}

Users == {1}

\* Rows of the poi table by id, and where they lie: <<metres east, metres
\* north>> of row 1.  Rows 1 to 3 lie on one meridian, rows 4 and 5 east of it.
PoiPos ==
  (1 :> <<0, 0>>) @@ (2 :> <<0, 200>>) @@ (3 :> <<0, 300>>)
    @@ (4 :> <<90, 100>>) @@ (5 :> <<85, 99>>)

\* The rows of locations.csv.
CsvRows == {1, 2, 3}

\* The rows of a locations.csv that also lists the places off the meridian.
FieldRows == DOMAIN PoiPos

\* The rows imported at startup; the others are appended to the file later
\* and imported by /reload.
StartupRows == {1, 2}

\* Positions a user reports: 8 m, 45 m and 120 m north of POI 1.
Positions == {<<0, 8>>, <<0, 45>>, <<0, 120>>}

RevisitWindow == REVISIT_HOURS * 60

\* The instants the clock takes: startup, a minute later, and the last minute
\* before and the first minute after each revisit window since startup.
TimePoints ==
  {0, 1} \cup {d * RevisitWindow + o : d \in 1..MaxDay, o \in {-1, 0}}

(* ------------------------------- geometry ------------------------------ *)

Abs(n) == IF n < 0 THEN -n ELSE n

\* The least r with r * r >= n, found by bisection of lo..hi.
RECURSIVE SqrtBetween(_, _, _)
SqrtBetween(n, lo, hi) ==
  IF lo >= hi THEN hi
  ELSE LET mid == (lo + hi) \div 2
       IN IF mid * mid >= n THEN SqrtBetween(n, lo, mid)
          ELSE SqrtBetween(n, mid + 1, hi)

CeilSqrt(n) == SqrtBetween(n, 0, 46340)

\* Where the equator lies in the frame: latitude 0.0 is 59.716 degrees, of
\* 111195 m each, south of the origin.
EquatorNorth == -6640117

\* The latitude of p is the float 0.0, which Python takes for false.
lat_is_zero(p) == p[2] = EquatorNorth

\* Latitude within [-90, 90]: the north pole lies 30.284 degrees north of the
\* origin, the south pole 149.716 degrees south of it.
PoleNorth == 3367427

PoleSouth == -16647610

latitude_in_range(p) == PoleSouth <= p[2] /\ p[2] <= PoleNorth

\* Great-circle distance in metres, rounded up.
haversine(a, b) ==
  LET dx == a[1] - b[1]
      dy == a[2] - b[2]
  IN IF dx = 0 THEN Abs(dy)
     ELSE IF dy = 0 THEN Abs(dx)
     ELSE CeilSqrt(dx * dx + dy * dy)

\* The square of the SQL expression 111000*sqrt(pow(lat-?,2)+pow((lon-?)*0.6,2)),
\* in cm^2.  The squares of distances beyond SqlExact metres do not fit the
\* integers of the model: there the value is SqlFar plus the distance in
\* metres along the axes, which keeps such rows behind the nearer ones and,
\* on one meridian, in the order of their distance.
SqlExact == 300

SqlFar == 2000000000

sql_dist2(a, b) ==
  LET mx == Abs(a[1] - b[1])
      my == Abs(a[2] - b[2])
      dx == 119 * mx
      dy == 100 * my
  IN IF mx + my > SqlExact THEN SqlFar + mx + my
     ELSE dx * dx + dy * dy

\* round(bearing / 45) % 8 for the initial bearing from a to b: the octant of
\* the direction, the octant boundaries lying at tan(22.5 deg) = 0.41421.
get_direction(a, b) ==
  LET dx == b[1] - a[1]
      dy == b[2] - a[2]
      steep == 100000 * Abs(dx) < 41421 * Abs(dy)
      flat == 100000 * Abs(dy) < 41421 * Abs(dx)
  IN IF steep THEN (IF dy > 0 THEN 0 ELSE 4)
     ELSE IF flat THEN (IF dx > 0 THEN 2 ELSE 6)
     ELSE IF dx > 0 /\ dy > 0 THEN 1
     ELSE IF dx > 0 /\ dy < 0 THEN 3
     ELSE IF dx < 0 /\ dy < 0 THEN 5
     ELSE IF dx < 0 /\ dy > 0 THEN 7
     ELSE 0

(* ---------------------------- the database ----------------------------- *)

VARIABLES
  poi,            \* table poi: the ids of the catalog rows (PoiPos gives lat, lon)
  visit_log,      \* table visit_log: a bag of [user_id, poi_id, visited_at]
  user_tracking,  \* table user_tracking: user -> NoRow or a row
  user_stats,     \* table user_stats: user -> NoRow or a row
  user_interests, \* table user_interests: user -> the set of the user's interests
  now,            \* the clock (datetime.utcnow(), sqlite's 'now'), in minutes
  outcome,        \* what the last unit of work did and replied
  nav,            \* the target assignment being followed, and what it emitted
  loop            \* the event loop: the reports taken up and the handlers
                  \* suspended at an await

vars ==
  <<poi, visit_log, user_tracking, user_stats, user_interests, now, outcome, nav,
    loop>>

\* The committed content of the database, as one value.
DB ==
  [poi |-> poi, visit_log |-> visit_log,
   user_tracking |-> user_tracking, user_stats |-> user_stats,
   user_interests |-> user_interests]

Min(a, b) == IF a < b THEN a ELSE b

\* date('now'): the day the instant falls on.
date(t) == t \div (24 * 60)

\* A user_tracking row; a column the INSERT does not name takes its default
\* (NULL, or 0 for the two flags).  last_update is written and never read.
TrackingRow(last, target, n50, arrived) ==
  [last |-> last, target_poi_id |-> target,
   notified_50m |-> n50, notified_arrived |-> arrived]

\* A user_stats row, as INSERT OR IGNORE INTO user_stats(user_id, first_visit)
\* creates it.  total_distance is kept in metres (the column holds dist/1000,
\* kilometres); last_visit is the day of the last recorded visit.  The columns
\* first_visit, total_time, current_streak and max_streak are written once or
\* never and read by no decision; they are left out.
StatsRow ==
  [total_distance |-> 0, last_visit |-> NoDate, favorite_poi_id |-> NULL]

VisitRecord(uid, pid, t) == [user_id |-> uid, poi_id |-> pid, visited_at |-> t]

(* ------------------------------- queries ------------------------------- *)

\* Faulty variant of visited: the bound compared with >= instead of >.
visited_at_or_after(log, uid, pid, t) ==
  \E r \in BagToSet(log) :
    r.user_id = uid /\ r.poi_id = pid /\ r.visited_at >= t - RevisitWindow

\* EXISTS(SELECT 1 FROM visit_log WHERE user_id=? AND poi_id=poi.id AND visited_at>?)
\* with the bound utcnow() - timedelta(hours=REVISIT_HOURS).
visited(log, uid, pid, t) ==
  \E r \in BagToSet(log) :
    r.user_id = uid /\ r.poi_id = pid /\ r.visited_at > t - RevisitWindow

\* ORDER BY dist: the rows of S by ascending SQL distance from loc.  SQL leaves
\* the order of rows at the same distance open; PoiPos and the positions hold no
\* two rows at the same distance from a position, and the id only makes the
\* operator total.
RECURSIVE order_by_dist(_, _)
order_by_dist(S, loc) ==
  IF S = {} THEN <<>>
  ELSE LET m == CHOOSE p \in S : \A q \in S :
                  \/ sql_dist2(PoiPos[p], loc) < sql_dist2(PoiPos[q], loc)
                  \/ sql_dist2(PoiPos[p], loc) = sql_dist2(PoiPos[q], loc) /\ p <= q
       IN <<m>> \o order_by_dist(S \ {m}, loc)

\* LIMIT n
limit_rows(rows, n) == SubSeq(rows, 1, Min(n, Len(rows)))

find_nearest_unvisited(db, uid, loc, t, limit) ==
  limit_rows(order_by_dist({p \in db.poi : ~visited(db.visit_log, uid, p, t)}, loc),
             limit)

\* The nearest unvisited row within RADIUS of loc by the SQL distance, or NULL.
nearest(db, uid, loc, t) ==
  LET rows == limit_rows(
                order_by_dist(
                  {p \in db.poi :
                     /\ ~visited(db.visit_log, uid, p, t)
                     /\ sql_dist2(PoiPos[p], loc) <= (100 * RADIUS) * (100 * RADIUS)},
                  loc),
                1)
  IN IF rows = <<>> THEN NULL ELSE rows[1]

get_poi_by_id(db, poi_id) == IF poi_id \in db.poi THEN poi_id ELSE NULL

\* SELECT COUNT(DISTINCT poi_id) FROM visit_log WHERE user_id=?
user_stats_visited(log, uid) ==
  Cardinality({r.poi_id : r \in {x \in BagToSet(log) : x.user_id = uid}})

(* ------------------------------ store writes --------------------------- *)

\* SELECT poi_id, COUNT(*) AS cnt ... GROUP BY poi_id ORDER BY cnt DESC LIMIT 1:
\* the rows this may return.  The order among equal counts is the engine's.
visit_count(log, uid, pid) ==
  LET rs == {r \in BagToSet(log) : r.user_id = uid /\ r.poi_id = pid}
      RECURSIVE sum(_)
      sum(S) == IF S = {} THEN 0
                ELSE LET r == CHOOSE x \in S : TRUE IN CopiesIn(r, log) + sum(S \ {r})
  IN sum(rs)

fav_rows(log, uid) ==
  LET ps == {r.poi_id : r \in {x \in BagToSet(log) : x.user_id = uid}}
  IN {p \in ps : \A q \in ps : visit_count(log, uid, p) >= visit_count(log, uid, q)}

\* update_visit_stats runs on a connection of its own.  view is the database
\* that connection sees; write_locked says that another connection holds the
\* write lock, in which case the first statement, a write, waits out the
\* busy timeout and raises OperationalError("database is locked").
\* fav_ran says whether the favourite query ran, fav_read is the visit_log it read.
update_visit_stats(view, uid, t, write_locked) ==
  IF write_locked
  THEN {[raised |-> TRUE, db |-> view, fav_ran |-> FALSE, fav_read |-> EmptyBag]}
  ELSE LET s0 == IF view.user_stats[uid] = NoRow THEN StatsRow
                 ELSE view.user_stats[uid]
           s1 == [s0 EXCEPT !.last_visit = date(t)]
           favs == fav_rows(view.visit_log, uid)
       IN IF favs = {}
          THEN {[raised |-> FALSE,
                 db |-> [view EXCEPT !.user_stats[uid] = s1],
                 fav_ran |-> TRUE, fav_read |-> view.visit_log]}
          ELSE {[raised |-> FALSE,
                 db |-> [view EXCEPT !.user_stats[uid] =
                                       [s1 EXCEPT !.favorite_poi_id = f]],
                 fav_ran |-> TRUE, fav_read |-> view.visit_log] : f \in favs}

\* Faulty variant of mark_visit: the INSERT is committed although
\* update_visit_stats raised.
mark_visit_keeps_insert(db, uid, pid, t) ==
  LET pending == db.visit_log (+) SetToBag({VisitRecord(uid, pid, t)})
      c_in_transaction == TRUE
  IN {IF r.raised
      THEN [raised |-> TRUE, db |-> [db EXCEPT !.visit_log = pending],
            fav_ran |-> r.fav_ran, fav_read |-> r.fav_read]
      ELSE [raised |-> FALSE,
            db |-> [r.db EXCEPT !.visit_log = pending],
            fav_ran |-> r.fav_ran, fav_read |-> r.fav_read]
      : r \in update_visit_stats(db, uid, t, c_in_transaction)}

\* mark_visit: the INSERT runs on connection c and stays uncommitted (c holds
\* the write lock) while update_visit_stats runs on its own connection, which
\* sees the committed database only.  An exception leaving the with block
\* rolls the INSERT back; otherwise both connections' writes are committed.
mark_visit(db, uid, pid, t) ==
  LET pending == db.visit_log (+) SetToBag({VisitRecord(uid, pid, t)})
      c_in_transaction == TRUE
  IN {IF r.raised
      THEN [raised |-> TRUE, db |-> db, fav_ran |-> r.fav_ran,
            fav_read |-> r.fav_read]
      ELSE [raised |-> FALSE,
            db |-> [r.db EXCEPT !.visit_log = pending],
            fav_ran |-> r.fav_ran, fav_read |-> r.fav_read]
      : r \in update_visit_stats(db, uid, t, c_in_transaction)}

\* Faulty variant of set_navigation_target: UPDATE user_tracking SET target_poi_id=?
\* WHERE user_id=?, which keeps the flags and needs the row to exist.
set_navigation_target_by_update(db, uid, poi_id) ==
  IF db.user_tracking[uid] = NoRow THEN db
  ELSE [db EXCEPT !.user_tracking[uid].target_poi_id = poi_id]

\* INSERT OR REPLACE INTO user_tracking(user_id, target_poi_id, notified_50m,
\* notified_arrived): the user's row is replaced; last_lat, last_lon are not
\* named and become NULL.
set_navigation_target(db, uid, poi_id) ==
  [db EXCEPT !.user_tracking[uid] = TrackingRow(NoPos, poi_id, FALSE, FALSE)]

\* Faulty variant of clear_navigation_target: only target_poi_id is set to NULL.
clear_navigation_target_keeps_flags(db, uid) ==
  IF db.user_tracking[uid] = NoRow THEN db
  ELSE [db EXCEPT !.user_tracking[uid].target_poi_id = NULL]

\* UPDATE user_tracking SET target_poi_id=NULL, notified_50m=0,
\* notified_arrived=0 WHERE user_id=?
clear_navigation_target(db, uid) ==
  IF db.user_tracking[uid] = NoRow THEN db
  ELSE [db EXCEPT !.user_tracking[uid] =
                    [@ EXCEPT !.target_poi_id = NULL,
                              !.notified_50m = FALSE,
                              !.notified_arrived = FALSE]]

\* Faulty variants of update_user_position.  The first carries target_poi_id over into
\* the replacing row (the flags still take their defaults); the second updates
\* last_lat, last_lon in place, keeping the target and the flags.
update_user_position_keeps_target(db, uid, loc, t) ==
  LET stats0 == IF db.user_stats[uid] = NoRow THEN StatsRow
                ELSE db.user_stats[uid]
      target == IF db.user_tracking[uid] = NoRow THEN NULL
                ELSE db.user_tracking[uid].target_poi_id
  IN [db EXCEPT !.user_tracking[uid] = TrackingRow(loc, target, FALSE, FALSE),
                !.user_stats[uid] = stats0]

update_user_position_in_place(db, uid, loc, t) ==
  LET stats0 == IF db.user_stats[uid] = NoRow THEN StatsRow
                ELSE db.user_stats[uid]
  IN [db EXCEPT !.user_tracking[uid] =
                   IF @ = NoRow THEN TrackingRow(loc, NULL, FALSE, FALSE)
                   ELSE [@ EXCEPT !.last = loc],
                !.user_stats[uid] = stats0]

\* update_user_position: INSERT OR REPLACE INTO user_tracking(user_id, last_lat,
\* last_lon, last_update) replaces the user's row; target_poi_id and the two
\* flags are not named and take their defaults.
update_user_position(db, uid, loc, t) ==
  LET stats0 == IF db.user_stats[uid] = NoRow THEN StatsRow
                ELSE db.user_stats[uid]
      last == IF db.user_tracking[uid] = NoRow THEN NoPos
              ELSE db.user_tracking[uid].last
      \* if last and last['last_lat']: a row with a last_lat that is not
      \* NULL and not 0.0
      has_last == last # NoPos /\ ~lat_is_zero(last)
      dist == IF has_last THEN haversine(last, loc) ELSE 0
      stats1 == IF has_last /\ dist > NOISE_FLOOR
                THEN [stats0 EXCEPT !.total_distance = @ + dist]
                ELSE stats0
  IN [db EXCEPT !.user_tracking[uid] = TrackingRow(loc, NULL, FALSE, FALSE),
                !.user_stats[uid] = stats1]

(* ------------------------------- handlers ------------------------------ *)

\* What a handler did: the database it leaves, the branch it took, the reply
\* the user sees (kind, poi, dist, glyph, cands), whether an exception left
\* the handler, and the visit it tried to record.
Reply(db, branch, kind, p, dist, glyph, cands) ==
  [db |-> db, branch |-> branch, kind |-> kind, poi |-> p, dist |-> dist,
   glyph |-> glyph, cands |-> cands, raised |-> FALSE, visit |-> NULL,
   fav_ran |-> FALSE, fav_read |-> EmptyBag]

\* show_poi_info: with an Update that has neither message nor callback_query
\* (an edited_message, as every live update is) it logs an error and returns;
\* otherwise it replies with the POI and the "next place" button, then calls
\* mark_visit.
show_poi_info(db, uid, pid, t, has_message) ==
  IF ~has_message
  THEN {[db |-> db, shown |-> FALSE, next |-> <<>>, raised |-> FALSE,
         visit |-> NULL, fav_ran |-> FALSE, fav_read |-> EmptyBag]}
  ELSE {[db |-> r.db, shown |-> TRUE,
         next |-> limit_rows(
                    find_nearest_unvisited(db, uid, PoiPos[pid], t, NEXT_LIMIT), 1),
         raised |-> r.raised, visit |-> pid, fav_ran |-> r.fav_ran,
         fav_read |-> r.fav_read]
        : r \in mark_visit(db, uid, pid, t)}

\* handle_live_location, for an edited_message update (u.message is None).
handle_live_location(db, uid, loc, t) ==
  LET track == db.user_tracking[uid]
  IN IF track = NoRow \/ track.target_poi_id = NULL
     THEN LET pois == find_nearest_unvisited(db, uid, loc, t, LIVE_LIMIT)
          IN {Reply(db, "idle", IF pois # <<>> THEN "ChooseTarget" ELSE "None",
                    NULL, 0, NoGlyph, pois)}
     ELSE
       LET p == get_poi_by_id(db, track.target_poi_id)
       IN IF p = NULL
          THEN \* poi['lat'] on None raises TypeError
               {[Reply(db, "lost", "None", NULL, 0, NoGlyph, <<>>)
                   EXCEPT !.raised = TRUE]}
          ELSE
            LET dist == haversine(loc, PoiPos[p])
                direction == get_direction(loc, PoiPos[p])
            IN IF dist <= RADIUS
               THEN IF ~track.notified_arrived
                    THEN {IF r.raised
                          THEN [Reply(r.db, "arrived", "NavArrived", p, dist, NoGlyph, r.next)
                                  EXCEPT !.raised = TRUE, !.visit = r.visit,
                                         !.fav_ran = r.fav_ran, !.fav_read = r.fav_read]
                          ELSE [Reply([clear_navigation_target(r.db, uid)
                                         EXCEPT !.user_tracking[uid].notified_arrived = TRUE],
                                      "arrived",
                                      IF r.shown THEN "NavArrived" ELSE "None",
                                      p, dist, NoGlyph, r.next)
                                  EXCEPT !.visit = r.visit, !.fav_ran = r.fav_ran, !.fav_read = r.fav_read]
                          : r \in show_poi_info(db, uid, p, t, FALSE)}
                    ELSE {Reply(db, "arrived_before", "None", p, dist, NoGlyph, <<>>)}
               ELSE IF dist <= NEAR_THRESHOLD
               THEN IF ~track.notified_50m
                    THEN {Reply([db EXCEPT !.user_tracking[uid].notified_50m = TRUE],
                                "near", "NavNear", p, dist, direction, <<>>)}
                    ELSE {Reply(db, "near_before", "None", p, dist, NoGlyph, <<>>)}
               ELSE {Reply(db, "progress", "NavProgress", p, dist, direction, <<>>)}

\* show_nearest_poi, for a message update.  An exception of mark_visit leaves
\* show_poi_info, this function and on_location after the POI was shown.
show_nearest_poi(db, uid, loc, t) ==
  LET p == nearest(db, uid, loc, t)
  IN IF p = NULL
     THEN {Reply(db, "nothing_near", "NoNearbyPoi", NULL, 0, NoGlyph, <<>>)}
     ELSE {[Reply(r.db, "surface", "SurfacePoi", p, haversine(loc, PoiPos[p]),
                  NoGlyph, r.next)
              EXCEPT !.raised = r.raised, !.visit = r.visit,
                     !.fav_ran = r.fav_ran, !.fav_read = r.fav_read]
           : r \in show_poi_info(db, uid, p, t, TRUE)}

\* on_callback, data "navigate_<id>": the target is stored before the POI is
\* looked up; poi['name_ru'] on None raises TypeError, which the handler's
\* except clause turns into the error alert.
on_callback_navigate(db, uid, poi_id) ==
  LET db1 == set_navigation_target(db, uid, poi_id)
  IN IF get_poi_by_id(db1, poi_id) = NULL
     THEN {Reply(db1, "navigate", "Error", NULL, 0, NoGlyph, <<>>)}
     ELSE {Reply(db1, "navigate", "NavigationOn", poi_id, 0, NoGlyph, <<>>)}

\* on_callback, data "show_next_<id>": an exception of mark_visit is caught by
\* the handler's except clause and answered with the error alert.
on_callback_show_next(db, uid, poi_id, t) ==
  LET p == get_poi_by_id(db, poi_id)
      track == db.user_tracking[uid]
      dist == IF track # NoRow /\ track.last # NoPos
              THEN haversine(track.last, PoiPos[poi_id]) ELSE 0
  IN IF p = NULL
     THEN {Reply(db, "show_next", "NotFound", NULL, 0, NoGlyph, <<>>)}
     ELSE {IF r.raised
           THEN [Reply(r.db, "show_next", "Error", NULL, 0, NoGlyph, <<>>)
                   EXCEPT !.visit = p, !.fav_ran = r.fav_ran, !.fav_read = r.fav_read]
           ELSE [Reply(r.db, "show_next", "SurfacePoi", p, dist, NoGlyph,
                       limit_rows(find_nearest_unvisited(r.db, uid, PoiPos[p], t,
                                                         NEXT_LIMIT), 1))
                   EXCEPT !.visit = p, !.fav_ran = r.fav_ran, !.fav_read = r.fav_read]
           : r \in mark_visit(db, uid, p, t)}

\* Faulty variant of cmd_reset: DELETE FROM visit_log without the WHERE clause.
cmd_reset_all_visits(db, uid) ==
  [db EXCEPT
     !.visit_log = EmptyBag,
     !.user_tracking[uid] = NoRow,
     !.user_stats[uid] = IF @ = NoRow THEN NoRow
                         ELSE [@ EXCEPT !.total_distance = 0]]

\* Faulty variant of cmd_reset: without DELETE FROM user_tracking.
cmd_reset_keeps_tracking(db, uid) ==
  [db EXCEPT
     !.visit_log = [r \in {x \in DOMAIN @ : x.user_id # uid} |-> @[r]],
     !.user_stats[uid] = IF @ = NoRow THEN NoRow
                         ELSE [@ EXCEPT !.total_distance = 0]]

\* cmd_reset: DELETE the user's visit_log rows and user_tracking row, and
\* UPDATE user_stats SET total_distance=0.
cmd_reset(db, uid) ==
  [db EXCEPT
     !.visit_log = [r \in {x \in DOMAIN @ : x.user_id # uid} |-> @[r]],
     !.user_tracking[uid] = NoRow,
     !.user_stats[uid] = IF @ = NoRow THEN NoRow
                         ELSE [@ EXCEPT !.total_distance = 0]]

\* import_csv: INSERT OR IGNORE of every row of locations.csv.
import_csv(db) == [db EXCEPT !.poi = @ \cup CsvRows]

\* INSERT OR IGNORE INTO user_interests(user_id, interest)
add_user_interest(db, uid, interest) ==
  [db EXCEPT !.user_interests[uid] = @ \cup {interest}]

\* DELETE FROM user_interests WHERE user_id=? AND interest=?
remove_user_interest(db, uid, interest) ==
  [db EXCEPT !.user_interests[uid] = @ \ {interest}]

(* ------------------------------- actions ------------------------------- *)

Commit(db) ==
  /\ poi' = db.poi
  /\ visit_log' = db.visit_log
  /\ user_tracking' = db.user_tracking
  /\ user_stats' = db.user_stats
  /\ user_interests' = db.user_interests

\* The record of a unit of work: the update handled (op, uid, loc, arg, live)
\* and what the handler did; for a target change or a reset, pre is the
\* user's user_tracking row before it.
Outcome(op, uid, loc, arg, live, r) ==
  [op |-> op, uid |-> uid, loc |-> loc, arg |-> arg, live |-> live, pre |-> NoRow,
   branch |-> r.branch, kind |-> r.kind, poi |-> r.poi, dist |-> r.dist,
   glyph |-> r.glyph, cands |-> r.cands, raised |-> r.raised,
   visit |-> r.visit, fav_ran |-> r.fav_ran, fav_read |-> r.fav_read]

NoOutcome ==
  Outcome("startup", 0, NoPos, NULL, FALSE,
          Reply(NoRow, "none", "None", NULL, 0, NoGlyph, <<>>))

\* The band of a distance to the target: within RADIUS, within NEAR_THRESHOLD,
\* or farther.
Band(d) == IF d <= RADIUS THEN "at" ELSE IF d <= NEAR_THRESHOLD THEN "near" ELSE "far"

\* nav follows one target assignment, the latest made: the user and POI of the
\* set_navigation_target call and, of the live reports of that user since then,
\*   near, arrived: how many took the near and the arrived branch (up to 2),
\*   close: how many were within NEAR_THRESHOLD of the POI (up to 2),
\*   scen: the replies to the reports, for as long as (on) the reports are
\*         one farther than NEAR_THRESHOLD, one within it, one within RADIUS.
\* NavOff is the value of nav when no assignment is to be followed at all.
NoNav ==
  [uid |-> 0, poi |-> NULL, near |-> 0, arrived |-> 0, close |-> 0,
   on |-> FALSE, scen |-> <<>>]

NavOff == [NoNav EXCEPT !.uid = -1]

Assigned(uid, poi_id) ==
  [uid |-> uid, poi |-> poi_id, near |-> 0, arrived |-> 0, close |-> 0,
   on |-> TRUE, scen |-> <<>>]

ScenarioBands == <<"far", "near", "at">>

Follow(n, loc, r) ==
  LET band == Band(haversine(loc, PoiPos[n.poi]))
      next_on == n.on /\ Len(n.scen) < 3 /\ band = ScenarioBands[Len(n.scen) + 1]
  IN [n EXCEPT
        !.near = IF r.branch = "near" THEN Min(2, @ + 1) ELSE @,
        !.arrived = IF r.branch = "arrived" THEN Min(2, @ + 1) ELSE @,
        !.close = IF band # "far" THEN Min(2, @ + 1) ELSE @,
        !.on = next_on,
        !.scen = IF next_on THEN Append(@, r.kind) ELSE <<>>]

\* No report taken up and no handler suspended.
NoLoop == [db0 |-> NoRow, reports |-> <<>>, replies |-> <<>>, tasks |-> {}]

\* on_location for a location message (live = FALSE) or an edit of a live
\* location (live = TRUE).
OnLocation(uid, loc, live) ==
  LET db1 == update_user_position(DB, uid, loc, now)
  IN /\ db1.user_stats[uid].total_distance <= MaxDistance
     /\ \E r \in (IF live THEN handle_live_location(db1, uid, loc, now)
                  ELSE show_nearest_poi(db1, uid, loc, now)) :
          /\ Commit(r.db)
          /\ outcome' = Outcome("location", uid, loc, NULL, live, r)
          /\ nav' = IF live /\ nav.uid = uid THEN Follow(nav, loc, r) ELSE nav
     /\ UNCHANGED <<now, loop>>

\* on_callback with data "navigate_<poi_id>".
Navigate(uid, poi_id) ==
  /\ \E r \in on_callback_navigate(DB, uid, poi_id) :
       /\ Commit(r.db)
       /\ outcome' = [Outcome("navigate", uid, NoPos, poi_id, FALSE, r)
                        EXCEPT !.pre = user_tracking[uid]]
  /\ nav' = IF nav = NavOff THEN nav ELSE Assigned(uid, poi_id)
  /\ UNCHANGED <<now, loop>>

\* on_callback with data "show_next_<poi_id>".
ShowNext(uid, poi_id) ==
  /\ \E r \in on_callback_show_next(DB, uid, poi_id, now) :
       /\ Commit(r.db)
       /\ outcome' = Outcome("show_next", uid, NoPos, poi_id, FALSE, r)
  /\ UNCHANGED <<now, nav, loop>>

\* cmd_start: INSERT OR IGNORE INTO user_stats(user_id, first_visit).
CmdStart(uid) ==
  /\ user_stats' = [user_stats EXCEPT ![uid] = IF @ = NoRow THEN StatsRow ELSE @]
  /\ outcome' = Outcome("start", uid, NoPos, NULL, FALSE,
                        Reply(NoRow, "start", "Welcome", NULL, 0, NoGlyph, <<>>))
  /\ UNCHANGED <<poi, visit_log, user_tracking, user_interests, now, nav, loop>>

CmdReset(uid) ==
  /\ Commit(cmd_reset(DB, uid))
  /\ outcome' = [Outcome("reset", uid, NoPos, NULL, FALSE,
                         Reply(NoRow, "reset", "ResetDone", NULL, 0, NoGlyph, <<>>))
                   EXCEPT !.pre = user_tracking[uid]]
  /\ UNCHANGED <<now, nav, loop>>

\* cmd_reload, sent in a private chat.
CmdReload(uid) ==
  /\ Commit(import_csv(DB))
  /\ outcome' = Outcome("reload", uid, NoPos, NULL, FALSE,
                        Reply(NoRow, "reload", "Reloaded", NULL, 0, NoGlyph, <<>>))
  /\ UNCHANGED <<now, nav, loop>>

\* Time passes.
Tick ==
  /\ \E t \in TimePoints : t > now /\ now' = t
  /\ UNCHANGED <<poi, visit_log, user_tracking, user_stats, user_interests,
                 outcome, nav, loop>>

\* startup(): init_db() and import_csv() on a new database file.
Init ==
  /\ poi = StartupRows
  /\ visit_log = EmptyBag
  /\ user_tracking = [u \in AllUsers |-> NoRow]
  /\ user_stats = [u \in AllUsers |-> NoRow]
  /\ user_interests = [u \in AllUsers |-> {}]
  /\ now = 0
  /\ outcome = NoOutcome
  /\ nav = NoNav
  /\ loop = NoLoop

Next ==
  \/ \E uid \in Users, loc \in Positions, live \in BOOLEAN : OnLocation(uid, loc, live)
  \/ \E uid \in Users, poi_id \in CsvRows : Navigate(uid, poi_id)
  \/ \E uid \in Users, poi_id \in CsvRows : ShowNext(uid, poi_id)
  \/ \E uid \in Users : CmdStart(uid)
  \/ \E uid \in Users : CmdReset(uid)
  \/ \E uid \in Users : CmdReload(uid)
  \/ Tick

Spec == Init /\ [][Next]_vars

(* --------------- the functions of the core, on any database ------------ *)

\* clear_navigation_target, called by itself.
ClearTarget(uid) ==
  /\ Commit(clear_navigation_target(DB, uid))
  /\ outcome' = [Outcome("clear", uid, NoPos, NULL, FALSE,
                         Reply(NoRow, "clear", "None", NULL, 0, NoGlyph, <<>>))
                   EXCEPT !.pre = user_tracking[uid]]
  /\ nav' = IF nav.uid = uid THEN NoNav ELSE nav
  /\ UNCHANGED <<now, loop>>

\* The visit_log rows and user_tracking rows a database file kept from an
\* earlier run may hold: visits recorded at instant 0 and any row.
RECURSIVE BagOfSeq(_)
BagOfSeq(rs) ==
  IF rs = <<>> THEN EmptyBag ELSE SetToBag({Head(rs)}) (+) BagOfSeq(Tail(rs))

Ledgers ==
  {BagOfSeq(rs) :
     rs \in UNION {[1..n -> {VisitRecord(u, p, 0) : u \in AllUsers, p \in StartupRows}]
                     : n \in 0..MaxLog}}

\* The rows an existing database may hold for a user: a stored position or
\* none, any target or none, any combination of the flags.
StoredPositions == {NoPos, <<0, 45>>}

TrackingRows ==
  {TrackingRow(last, target, n50, arrived) :
     last \in StoredPositions, target \in CsvRows \cup {NULL},
     n50 \in BOOLEAN, arrived \in BOOLEAN}

\* startup() on an existing database file: init_db() creates the tables only
\* IF NOT EXISTS and import_csv() only adds rows.
InitCore ==
  /\ poi = StartupRows
  /\ visit_log \in Ledgers
  /\ user_tracking \in {f \in [AllUsers -> TrackingRows \cup {NoRow}] :
                          \A u \in AllUsers \ Users : f[u] = NoRow}
  /\ user_stats = [u \in AllUsers |-> NoRow]
  /\ user_interests = [u \in AllUsers |-> {}]
  /\ now = 0
  /\ outcome = NoOutcome
  /\ nav = NavOff
  /\ loop = NoLoop

NextCore == Next \/ \E uid \in Users : ClearTarget(uid)

SpecCore == InitCore /\ [][NextCore]_vars

(* ---------------- the account of a user, on any database --------------- *)

\* The keys of INTERESTS the buttons of /interests are followed for.
Interests == {"history"}

\* on_callback with data "interest_add_<interest>".
InterestAdd(uid, interest) ==
  /\ Commit(add_user_interest(DB, uid, interest))
  /\ outcome' = Outcome("interest_add", uid, NoPos, NULL, FALSE,
                        Reply(NoRow, "interests", "Interests", NULL, 0, NoGlyph, <<>>))
  /\ UNCHANGED <<now, nav, loop>>

\* on_callback with data "interest_remove_<interest>".
InterestRemove(uid, interest) ==
  /\ Commit(remove_user_interest(DB, uid, interest))
  /\ outcome' = Outcome("interest_remove", uid, NoPos, NULL, FALSE,
                        Reply(NoRow, "interests", "Interests", NULL, 0, NoGlyph, <<>>))
  /\ UNCHANGED <<now, nav, loop>>

\* The user_stats rows a database file kept from an earlier run may hold.
StatsRows == {[StatsRow EXCEPT !.total_distance = d] : d \in {0, 7}}

\* Positions reported here: 3 m and 10 m north of the stored position
\* <<0, 45>>, the point of latitude 0.0 on the meridian of the origin and
\* the point 10 m north of it, and a latitude beyond the north pole.
TrackPositions ==
  {<<0, 48>>, <<0, 55>>, <<0, EquatorNorth>>, <<0, EquatorNorth + 10>>,
   <<0, PoleNorth + 1000>>}

InitAccount ==
  /\ poi = StartupRows
  /\ visit_log \in Ledgers
  /\ user_tracking \in {f \in [AllUsers -> TrackingRows \cup {NoRow}] :
                          \A u \in AllUsers \ Users : f[u] = NoRow}
  /\ user_stats \in {f \in [AllUsers -> StatsRows \cup {NoRow}] :
                       \A u \in AllUsers \ Users : f[u] = NoRow}
  /\ user_interests \in [AllUsers -> SUBSET Interests]
  /\ now = 0
  /\ outcome = NoOutcome
  /\ nav = NavOff
  /\ loop = NoLoop

NextAccount ==
  \/ \E uid \in Users, loc \in TrackPositions, live \in BOOLEAN :
       OnLocation(uid, loc, live)
  \/ \E uid \in Users : CmdReset(uid)
  \/ \E uid \in Users : CmdStart(uid)
  \/ \E uid \in Users, interest \in Interests : InterestAdd(uid, interest)
  \/ \E uid \in Users, interest \in Interests : InterestRemove(uid, interest)

SpecAccount == InitAccount /\ [][NextAccount]_vars

(* ------------- position reports whose handlers run concurrently -------- *)

\* At most MaxReports reports are taken up.
MaxReports == 2

\* on_location as one uninterrupted run: update_user_position, then the
\* handler of the kind of update.
on_location(db, uid, loc, live, t) ==
  LET db1 == update_user_position(db, uid, loc, t)
  IN IF live THEN handle_live_location(db1, uid, loc, t)
     ELSE show_nearest_poi(db1, uid, loc, t)

\* What the user is sent.
Sent(r) == <<r.kind, r.poi, r.dist, r.glyph, r.cands>>

\* A handler is a coroutine: it runs uninterrupted up to an await that waits
\* for the network, and other handlers may run before it goes on.  The
\* Application is built with the defaults (one update at a time); the
\* handlers are let overlap here, which covers that build and one with
\* concurrent updates.  Two stores follow such an await: UPDATE user_tracking
\* SET notified_50m=1 after the edit_text of the near branch, and mark_visit
\* after the reply_text of show_poi_info.  (For an edit of a live location
\* show_poi_info returns without awaiting, so the arrived branch runs in one
\* piece.)
\*
\* Begin: on_location of a report up to the await, with the reply sent.
Begin(uid, loc, live) ==
  LET db1 == update_user_position(DB, uid, loc, now)
      n == Len(loop.reports) + 1
  IN /\ n <= MaxReports
     /\ db1.user_stats[uid].total_distance <= MaxDistance
     /\ \E r \in on_location(DB, uid, loc, live, now) :
          LET awaits == r.branch \in {"near", "surface"}
              task == [report |-> n, uid |-> uid, poi |-> r.poi,
                       step |-> IF r.branch = "near" THEN "notified_50m"
                                ELSE "mark_visit"]
          IN /\ Commit(IF awaits THEN db1 ELSE r.db)
             /\ loop' = [db0 |-> IF n = 1 THEN DB ELSE loop.db0,
                         reports |-> Append(loop.reports,
                                            [uid |-> uid, loc |-> loc, live |-> live]),
                         replies |-> Append(loop.replies, Sent(r)),
                         tasks |-> IF awaits THEN loop.tasks \cup {task}
                                   ELSE loop.tasks]
             /\ outcome' = [Outcome("location", uid, loc, NULL, live, r)
                              EXCEPT !.raised = IF awaits THEN FALSE ELSE @,
                                     !.visit = IF awaits THEN NULL ELSE @]
     /\ UNCHANGED <<now, nav>>

\* Resume: a suspended handler runs from its await to its end.
Resume(task) ==
  /\ task \in loop.tasks
  /\ IF task.step = "notified_50m"
     THEN /\ Commit([DB EXCEPT !.user_tracking[task.uid] =
                               IF @ = NoRow THEN @
                               ELSE [@ EXCEPT !.notified_50m = TRUE]])
          /\ outcome' = Outcome("resume", task.uid, NoPos, task.report, TRUE,
                                Reply(NoRow, "near", "None", task.poi, 0, NoGlyph, <<>>))
     ELSE \E r \in mark_visit(DB, task.uid, task.poi, now) :
            /\ Commit(r.db)
            /\ outcome' = Outcome("resume", task.uid, NoPos, task.report, FALSE,
                                  [Reply(NoRow, "surface", "None", task.poi, 0,
                                         NoGlyph, <<>>)
                                     EXCEPT !.raised = r.raised, !.visit = task.poi,
                                            !.fav_ran = r.fav_ran,
                                            !.fav_read = r.fav_read])
  /\ loop' = [loop EXCEPT !.tasks = @ \ {task}]
  /\ UNCHANGED <<now, nav>>

\* The reports one after the other, each handler run to its end before the
\* next begins: the databases this may leave and the replies sent.
RECURSIVE serial(_, _, _)
serial(db, reports, t) ==
  IF reports = <<>> THEN {[db |-> db, replies |-> <<>>]}
  ELSE LET h == Head(reports)
       IN UNION {{[db |-> rest.db, replies |-> <<Sent(r)>> \o rest.replies]
                    : rest \in serial(r.db, Tail(reports), t)}
                   : r \in on_location(db, h.uid, h.loc, h.live, t)}

InitAsync ==
  /\ poi = StartupRows
  /\ visit_log \in Ledgers
  /\ user_tracking \in {f \in [AllUsers -> TrackingRows \cup {NoRow}] :
                          \A u \in AllUsers \ Users : f[u] = NoRow}
  /\ user_stats = [u \in AllUsers |-> NoRow]
  /\ user_interests = [u \in AllUsers |-> {}]
  /\ now \in TimePoints
  /\ outcome = NoOutcome
  /\ nav = NavOff
  /\ loop = NoLoop

NextAsync ==
  \/ \E uid \in Users, loc \in Positions, live \in BOOLEAN : Begin(uid, loc, live)
  \/ \E task \in loop.tasks : Resume(task)

SpecAsync == InitAsync /\ [][NextAsync]_vars

(* --------------------- the units of work of two users ------------------ *)

\* startup() on a database that kept its visit_log; both users then send
\* updates, which the Application handles one at a time, in any order.
InitUsers ==
  /\ poi = StartupRows
  /\ visit_log \in Ledgers
  /\ user_tracking = [u \in AllUsers |-> NoRow]
  /\ user_stats = [u \in AllUsers |-> NoRow]
  /\ user_interests = [u \in AllUsers |-> {}]
  /\ now = 0
  /\ outcome = NoOutcome
  /\ nav = NavOff
  /\ loop = NoLoop

\* The positions reported here, 8 m and 45 m north of POI 1, and the POI the
\* navigate and show_next buttons pressed here name.
UserPositions == {<<0, 8>>, <<0, 45>>}

UserRows == {1}

NextUsers ==
  \/ \E uid \in AllUsers, loc \in UserPositions, live \in BOOLEAN :
       OnLocation(uid, loc, live)
  \/ \E uid \in AllUsers, poi_id \in UserRows : Navigate(uid, poi_id)
  \/ \E uid \in AllUsers, poi_id \in UserRows : ShowNext(uid, poi_id)
  \/ \E uid \in AllUsers : ClearTarget(uid)
  \/ \E uid \in AllUsers : CmdReset(uid)
  \/ \E uid \in AllUsers, interest \in Interests : InterestAdd(uid, interest)
  \/ \E uid \in AllUsers, interest \in Interests : InterestRemove(uid, interest)

SpecUsers == InitUsers /\ [][NextUsers]_vars

(* ------------------ a catalog with places off the meridian ------------- *)

\* Positions reported here: 8 m north of POI 1, 18 m east of POI 1, and 99 m
\* north of POI 1, which is 85 m west of POI 5.
FieldPositions == {<<0, 8>>, <<18, 0>>, <<0, 99>>}

\* The visit_log rows of an earlier run: any set of places visited by user 1
\* at instant 0.
FieldLedgers == {SetToBag({VisitRecord(1, p, 0) : p \in S}) : S \in SUBSET FieldRows}

\* startup() with the larger locations.csv on a database that kept its visit_log.
InitField ==
  /\ poi = FieldRows
  /\ visit_log \in FieldLedgers
  /\ user_tracking = [u \in AllUsers |-> NoRow]
  /\ user_stats = [u \in AllUsers |-> NoRow]
  /\ user_interests = [u \in AllUsers |-> {}]
  /\ now = 0
  /\ outcome = NoOutcome
  /\ nav = NavOff
  /\ loop = NoLoop

NextField ==
  \/ \E uid \in Users, loc \in FieldPositions, live \in BOOLEAN :
       OnLocation(uid, loc, live)
  \/ Tick

SpecField == InitField /\ [][NextField]_vars

(* ------------------------- bearing to direction ----------------------- *)

\* Bearings in half degrees, the unit in which the midpoints between two
\* octants (22.5, 67.5, ... degrees) are whole numbers: [0, 360) degrees.
Bearings == 0..(2 * 360 - 1)

\* Python's round() of the quotient n / d of naturals: to the nearest integer,
\* and a quotient halfway between two integers to the even one.
round(n, d) ==
  LET f == n \div d
      r == n % d
  IN IF 2 * r < d THEN f
     ELSE IF 2 * r > d THEN f + 1
     ELSE IF f % 2 = 0 THEN f ELSE f + 1

\* index = round(bearing / 45) % 8, for a bearing of h half degrees.
direction_index(h) == round(h, 2 * 45) % 8

\* get_direction for a pair of points whose bearing is h half degrees.
GetDirection(h) ==
  /\ outcome' = Outcome("direction", 0, NoPos, h, FALSE,
                        Reply(NoRow, "direction", "None", NULL, 0,
                              direction_index(h), <<>>))
  /\ UNCHANGED <<poi, visit_log, user_tracking, user_stats, user_interests,
                 now, nav, loop>>

NextBearing == \E h \in Bearings : GetDirection(h)

SpecBearing == Init /\ [][NextBearing]_vars

(* -------------------------------- levels ------------------------------- *)

\* The catalog and a user's history hold up to MaxVisited places here.
MaxVisited == 21

\* LEVELS: (places required, title), and the default title.
LEVELS ==
  <<[n |-> 1, title |-> "Pervootkryvatel"],
    [n |-> 3, title |-> "Lyuboznatelnyi putnik"],
    [n |-> 5, title |-> "Issledovatel"],
    [n |-> 10, title |-> "Znatok imperatorskogo goroda"],
    [n |-> 15, title |-> "Tsarskoselskii khronikyor"],
    [n |-> 20, title |-> "Khranitel istorii"]>>

Guest == "Gost"

\* Faulty variant of level_title: the loop stops at the first level reached.
level_title_first(count, i, title) ==
  IF \E k \in 1..Len(LEVELS) : count >= LEVELS[k].n
  THEN LEVELS[CHOOSE k \in 1..Len(LEVELS) :
                /\ count >= LEVELS[k].n
                /\ \A j \in 1..(k - 1) : count < LEVELS[j].n].title
  ELSE title

\* for n, t in LEVELS: if count >= n: title = t  -- from entry i on, with
\* the title held so far.
RECURSIVE level_title(_, _, _)
level_title(count, i, title) ==
  IF i > Len(LEVELS) THEN title
  ELSE level_title(count, i + 1,
                   IF count >= LEVELS[i].n THEN LEVELS[i].title ELSE title)

poi_count(db) == Cardinality(db.poi)

\* user_stats(uid): (visited, total, title)
user_stats_of(db, uid) ==
  LET seen == user_stats_visited(db.visit_log, uid)
  IN [visited |-> seen, total |-> poi_count(db),
      title |-> level_title(seen, 1, Guest)]

\* cmd_stats: replies with the title and visited/total.
CmdStats(uid) ==
  LET st == user_stats_of(DB, uid)
  IN /\ outcome' = Outcome("stats", uid, NoPos, st.visited, FALSE,
                           Reply(NoRow, "stats", st.title, NULL, st.total,
                                 NoGlyph, <<>>))
     /\ UNCHANGED <<poi, visit_log, user_tracking, user_stats, user_interests,
                    now, nav, loop>>

\* A database in which user 1 has visited the places 1..n, the first of them
\* twice, and user 2 the places 1..m.
History(n, m) ==
  SetToBag({VisitRecord(1, p, 0) : p \in 1..n})
    (+) SetToBag({VisitRecord(1, p, 0) : p \in 1..Min(n, 1)})
    (+) SetToBag({VisitRecord(2, p, 0) : p \in 1..m})

InitLevels ==
  /\ poi = 1..MaxVisited
  /\ \E n \in 0..MaxVisited, m \in 0..MaxVisited : visit_log = History(n, m)
  /\ user_tracking = [u \in AllUsers |-> NoRow]
  /\ user_stats = [u \in AllUsers |-> NoRow]
  /\ user_interests = [u \in AllUsers |-> {}]
  /\ now = 0
  /\ outcome = NoOutcome
  /\ nav = NavOff
  /\ loop = NoLoop

NextLevels == \E uid \in AllUsers : CmdStats(uid)

SpecLevels == InitLevels /\ [][NextLevels]_vars

\* None, for a title.
NoTitle == "None"

\* Faulty variant of next_level_info: the test visited <= n instead of
\* visited < n.
next_level_info_at(count, i) ==
  IF \E k \in i..Len(LEVELS) : count <= LEVELS[k].n
  THEN LET k == CHOOSE k \in i..Len(LEVELS) :
                  /\ count <= LEVELS[k].n
                  /\ \A j \in i..(k - 1) : count > LEVELS[j].n
       IN [to_next |-> LEVELS[k].n - count, title |-> LEVELS[k].title]
  ELSE [to_next |-> 0, title |-> NoTitle]

\* for n, title in LEVELS: if visited < n: return n - visited, title
\* return 0, None  -- from entry i on.
RECURSIVE next_level_info(_, _)
next_level_info(count, i) ==
  IF i > Len(LEVELS) THEN [to_next |-> 0, title |-> NoTitle]
  ELSE IF count < LEVELS[i].n
       THEN [to_next |-> LEVELS[i].n - count, title |-> LEVELS[i].title]
       ELSE next_level_info(count, i + 1)

\* The progress message of show_nearest_poi: user_stats for the number of
\* places, next_level_info for what is left to the next level.
ShowProgress(uid) ==
  LET st == user_stats_of(DB, uid)
      nxt == next_level_info(st.visited, 1)
  IN /\ outcome' = Outcome("progress", uid, NoPos, st.visited, FALSE,
                           Reply(NoRow, "progress", nxt.title, NULL, nxt.to_next,
                                 NoGlyph, <<>>))
     /\ UNCHANGED <<poi, visit_log, user_tracking, user_stats, user_interests,
                    now, nav, loop>>

NextProgress == \E uid \in AllUsers : ShowProgress(uid)

SpecProgress == InitLevels /\ [][NextProgress]_vars

(* -------------------------------- claims ------------------------------- *)

Row(uid) == user_tracking[uid]

\* The user has a row and it is in the state Tracking with target p.
Tracking(uid, p) ==
  /\ Row(uid) # NoRow
  /\ Row(uid).target_poi_id = p
  /\ ~Row(uid).notified_50m
  /\ ~Row(uid).notified_arrived

\* The user is Idle: no row, or a row with no target and both flags false.
Idle(uid) ==
  \/ Row(uid) = NoRow
  \/ /\ Row(uid).target_poi_id = NULL
     /\ ~Row(uid).notified_50m
     /\ ~Row(uid).notified_arrived

WithinSqlRadius(p, loc) ==
  sql_dist2(PoiPos[p], loc) <= (100 * RADIUS) * (100 * RADIUS)

\* C1: within one target assignment (from a set_navigation_target call to the
\* next target change of that user) the live reports take the arrived branch
\* at most once and the near branch at most once, however many of them lie
\* within RADIUS or NEAR_THRESHOLD of the target.
C1_AtMostOnce == nav.near <= 1 /\ nav.arrived <= 1

\* Two or more live reports of one assignment were within NEAR_THRESHOLD.
C1_Witness == nav.uid \in Users /\ nav.close >= 2 /\ nav.near <= 1 /\ nav.arrived <= 1

\* C2: a position report of a user whose target is set and lies farther than
\* NEAR_THRESHOLD from the reported position leaves target_poi_id and both
\* flags as they were and is answered by a progress event with the distance
\* and the bearing glyph.
C2_FarReportKeepsState ==
  [][\A uid \in Users, loc \in Positions, live \in BOOLEAN :
       ( /\ OnLocation(uid, loc, live)
         /\ Row(uid) # NoRow
         /\ Row(uid).target_poi_id \in poi
         /\ haversine(loc, PoiPos[Row(uid).target_poi_id]) > NEAR_THRESHOLD )
       => ( /\ user_tracking'[uid] # NoRow
            /\ user_tracking'[uid].target_poi_id = Row(uid).target_poi_id
            /\ user_tracking'[uid].notified_50m = Row(uid).notified_50m
            /\ user_tracking'[uid].notified_arrived = Row(uid).notified_arrived
            /\ outcome'.kind = "NavProgress"
            /\ outcome'.dist = haversine(loc, PoiPos[Row(uid).target_poi_id])
            /\ outcome'.glyph = get_direction(loc, PoiPos[Row(uid).target_poi_id]) )
    ]_vars

\* C3: after set_navigation_target(user, p), live reports that are first
\* farther than NEAR_THRESHOLD from p, then within NEAR_THRESHOLD, then within
\* RADIUS are answered by NavProgress, NavNear and NavArrived in this order,
\* the near and the arrived event once each at its crossing.
C3_Scenario ==
  (nav.on /\ nav.poi \in poi) =>
    /\ \A i \in 1..Len(nav.scen) :
         nav.scen[i] = <<"NavProgress", "NavNear", "NavArrived">>[i]
    /\ nav.near = (IF Len(nav.scen) >= 2 THEN 1 ELSE 0)
    /\ nav.arrived = (IF Len(nav.scen) >= 3 THEN 1 ELSE 0)

\* C4: a POI with a visit_log row of the user at T is left out of
\* find_nearest_unvisited and of nearest for that user at every instant before
\* T + REVISIT_HOURS; a POI with no such row (whatever rows other users have)
\* is listed by find_nearest_unvisited, and returned by nearest when it is the
\* nearest such POI within the SQL radius.
C4_CoolDown ==
  \A uid \in AllUsers, p \in poi, loc \in Positions :
    LET cooling == \E r \in BagToSet(visit_log) :
                      /\ r.user_id = uid /\ r.poi_id = p
                      /\ now < r.visited_at + RevisitWindow
        CoolingFor(q) == \E r \in BagToSet(visit_log) :
                           /\ r.user_id = uid /\ r.poi_id = q
                           /\ now < r.visited_at + RevisitWindow
        all == find_nearest_unvisited(DB, uid, loc, now, Cardinality(poi))
        listed == \E i \in DOMAIN all : all[i] = p
        auto == nearest(DB, uid, loc, now)
    IN /\ cooling => (~listed /\ auto # p)
       /\ ~cooling =>
            /\ listed
            /\ ( /\ WithinSqlRadius(p, loc)
                 /\ \A q \in poi \ {p} :
                      \/ CoolingFor(q)
                      \/ sql_dist2(PoiPos[q], loc) > sql_dist2(PoiPos[p], loc) )
               => auto = p

\* A visit of the user has left its revisit window, and the POI is the one
\* nearest() returns again.
C4_Witness ==
  \E uid \in Users, p \in poi, loc \in Positions :
    /\ \E r \in BagToSet(visit_log) : r.user_id = uid /\ r.poi_id = p
    /\ \A r \in BagToSet(visit_log) :
         (r.user_id = uid /\ r.poi_id = p) => now >= r.visited_at + RevisitWindow
    /\ nearest(DB, uid, loc, now) = p

\* C5: a location message that surfaced POI p for a user with no earlier
\* visit has recorded the visit (user, p), so that the same message sent
\* again from the same position within the revisit window is answered by
\* NoNearbyPoi when no other POI is within RADIUS.
C5_SecondReportFindsNothing ==
  ( /\ outcome.op = "location" /\ ~outcome.live
    /\ outcome.kind = "SurfacePoi"
    /\ now < RevisitWindow )
  => /\ \E r \in BagToSet(visit_log) :
          r.user_id = outcome.uid /\ r.poi_id = outcome.poi
     /\ (\A q \in poi \ {outcome.poi} : ~WithinSqlRadius(q, outcome.loc))
        => \A r \in show_nearest_poi(DB, outcome.uid, outcome.loc, now) :
             r.kind = "NoNearbyPoi"

\* C6: when mark_visit is called, the favourite-POI query of
\* update_visit_stats runs and reads a visit_log that holds the new row.
C6_RecomputeSeesVisit ==
  outcome.visit # NULL =>
    /\ outcome.fav_ran
    /\ \E r \in BagToSet(outcome.fav_read) :
         r.user_id = outcome.uid /\ r.poi_id = outcome.visit

\* C7: after set_navigation_target(user, p), whatever the user's row was
\* before (none, Idle, Tracking, Near, Arrived), the user is in Tracking:
\* target_poi_id = p and both flags false.
C7_SetTargetTracks ==
  outcome.op = "navigate" => Tracking(outcome.uid, outcome.arg)

\* set_navigation_target found the user in Arrived (target set, arrived flag).
C7_Witness ==
  /\ outcome.op = "navigate"
  /\ outcome.pre # NoRow
  /\ outcome.pre.target_poi_id # NULL
  /\ outcome.pre.notified_arrived
  /\ Tracking(outcome.uid, outcome.arg)

\* C8: after clear_navigation_target(user), whatever the user's row was
\* before, the user is Idle: no target and both flags false.
C8_ClearTargetIdles == outcome.op = "clear" => Idle(outcome.uid)

\* clear_navigation_target found the user in Near (target set, near flag).
C8_Witness ==
  /\ outcome.op = "clear"
  /\ outcome.pre # NoRow
  /\ outcome.pre.target_poi_id # NULL
  /\ outcome.pre.notified_50m
  /\ Row(outcome.uid) # NoRow
  /\ Idle(outcome.uid)

C10_DistinctNeverDecreases ==
  [][\A uid \in AllUsers :
       \/ user_stats_visited(visit_log', uid) >= user_stats_visited(visit_log, uid)
       \/ CmdReset(uid)
    ]_vars

\* A POI of the user's history surfaces again after its revisit window, with
\* the count of distinct visited POIs kept.
C10_Witness ==
  /\ outcome.op = "location"
  /\ outcome.kind = "SurfacePoi"
  /\ now >= RevisitWindow
  /\ \E r \in BagToSet(visit_log) :
       r.user_id = outcome.uid /\ r.poi_id = outcome.poi
  /\ user_stats_visited(visit_log, outcome.uid) >= 1

\* The user's visit_log rows, and the rows of the other users.
RowsOf(log, uid) == [r \in {x \in DOMAIN log : x.user_id = uid} |-> log[r]]

RowsNotOf(log, uid) == [r \in {x \in DOMAIN log : x.user_id # uid} |-> log[r]]

\* C11: cmd_reset of a user leaves no visit_log row of the user and no
\* user_tracking row (so no target), and a total_distance of zero if the user
\* has a user_stats row; the user's interests, the poi table and the other
\* users' visit_log rows are as before.
C11_ResetFrame ==
  [][\A uid \in Users :
       CmdReset(uid) =>
         /\ RowsOf(visit_log', uid) = EmptyBag
         /\ RowsNotOf(visit_log', uid) = RowsNotOf(visit_log, uid)
         /\ user_tracking'[uid] = NoRow
         /\ user_stats'[uid] # NoRow => user_stats'[uid].total_distance = 0
         /\ user_interests' = user_interests
         /\ poi' = poi
    ]_vars

\* A reset of a user who had a target, walked a distance, and has interests,
\* in a database that holds a visit of the other user.
C11_Witness ==
  /\ outcome.op = "reset"
  /\ outcome.pre # NoRow
  /\ outcome.pre.target_poi_id # NULL
  /\ user_stats[outcome.uid] # NoRow
  /\ user_interests[outcome.uid] # {}
  /\ visit_log # EmptyBag
  /\ RowsOf(visit_log, outcome.uid) = EmptyBag
  /\ user_tracking[outcome.uid] = NoRow

\* C12: a position report adds to total_distance the distance from the stored
\* prior position of the user when that distance is above NOISE_FLOOR, and
\* nothing when it is at most NOISE_FLOOR or no prior position is stored.
C12_DistanceAccumulates ==
  [][\A uid \in Users, loc \in TrackPositions, live \in BOOLEAN :
       OnLocation(uid, loc, live) =>
         LET prior == IF Row(uid) = NoRow THEN NoPos ELSE Row(uid).last
             before == IF user_stats[uid] = NoRow THEN 0
                       ELSE user_stats[uid].total_distance
             delta == IF prior = NoPos THEN 0 ELSE haversine(prior, loc)
         IN user_stats'[uid].total_distance =
              before + (IF delta > NOISE_FLOOR THEN delta ELSE 0)
    ]_vars

\* The orders in which n reports can be served one after the other.
Orders(n) == {f \in [1..n -> 1..n] : \A i, j \in 1..n : f[i] = f[j] => i = j}

Progress(row) ==
  IF row = NoRow THEN <<NoDate, NULL>> ELSE <<row.last_visit, row.favorite_poi_id>>

C15_NotFoundReported ==
  /\ (outcome.op \in {"navigate", "show_next"} /\ outcome.arg \notin poi)
       => (outcome.kind = "NotFound" /\ ~outcome.raised)
  /\ (outcome.op = "location" /\ outcome.branch = "lost")
       => (outcome.kind = "NotFound" /\ ~outcome.raised)

\* C16: a position report whose latitude is outside [-90, 90] is answered
\* with InvalidInput, and its coordinates are not stored as the position of
\* the user.
C16_InvalidInputReported ==
  (outcome.op = "location" /\ ~latitude_in_range(outcome.loc)) =>
    /\ outcome.kind = "InvalidInput"
    /\ \/ Row(outcome.uid) = NoRow
       \/ Row(outcome.uid).last # outcome.loc

\* C17: after a unit of work that called mark_visit(user, p), favorite_poi_id
\* of the user is a POI with the most visits in the user's visit_log with the
\* new visit counted, and it is the favourite of before if that POI is among
\* those with the most visits.
C17_FavouriteIsMostVisited ==
  [][\A uid \in Users :
       ( /\ \/ \E loc \in Positions, live \in BOOLEAN : OnLocation(uid, loc, live)
            \/ \E poi_id \in CsvRows : ShowNext(uid, poi_id)
         /\ outcome'.visit # NULL )
       => LET ledger == visit_log (+) SetToBag({VisitRecord(uid, outcome'.visit, now)})
              favs == fav_rows(ledger, uid)
              prev == IF user_stats[uid] = NoRow THEN NULL
                      ELSE user_stats[uid].favorite_poi_id
          IN /\ user_stats'[uid] # NoRow
             /\ user_stats'[uid].favorite_poi_id \in favs
             /\ prev \in favs => user_stats'[uid].favorite_poi_id = prev
    ]_vars

\* The thresholds of the level table.
Thresholds == <<1, 3, 5, 10, 15, 20>>

\* C18: the title cmd_stats replies with for a user with n distinct visited
\* places is the title of the level with the highest threshold that is at
\* most n, the thresholds being 1, 3, 5, 10, 15, 20, and the guest title
\* when n is below the lowest threshold.
C18_TitleOfHighestLevel ==
  outcome.op = "stats" =>
    LET n == user_stats_visited(visit_log, outcome.uid)
        reached == {i \in 1..Len(Thresholds) : Thresholds[i] <= n}
        top == CHOOSE i \in reached : \A j \in reached : j <= i
    IN /\ outcome.arg = n
       /\ outcome.kind = IF reached = {} THEN Guest ELSE LEVELS[top].title

\* A user with 12 distinct places, 13 visits, is told the title of level 10.
C18_Witness ==
  /\ outcome.op = "stats"
  /\ outcome.arg = 12
  /\ outcome.kind = LEVELS[4].title
  /\ BagCardinality(RowsOf(visit_log, outcome.uid)) = 13

\* The POIs eligible for uid at instant t: no visit_log row of the user and
\* the POI within the last REVISIT_HOURS.
Eligible(uid, t) == {p \in poi : ~visited(visit_log, uid, p, t)}

\* C19: the candidates find_nearest_unvisited gives a live report without a
\* target are at most LIVE_LIMIT, all eligible, in the order of non-decreasing
\* great-circle distance from the position, no eligible POI left out is
\* strictly nearer than one of them, and the call stores nothing: the
\* database is as update_user_position left it.
C19_NearestUnvisitedInOrder ==
  [][\A uid \in Users, loc \in FieldPositions :
       (OnLocation(uid, loc, TRUE) /\ outcome'.branch = "idle")
       => LET cands == outcome'.cands
              out == Eligible(uid, now) \ {cands[i] : i \in 1..Len(cands)}
              db1 == update_user_position(DB, uid, loc, now)
          IN /\ Len(cands) <= LIVE_LIMIT
             /\ \A i \in 1..Len(cands) : cands[i] \in Eligible(uid, now)
             /\ \A i, j \in 1..Len(cands) :
                  i < j => haversine(loc, PoiPos[cands[i]])
                             <= haversine(loc, PoiPos[cands[j]])
             /\ \A q \in out, i \in 1..Len(cands) :
                  haversine(loc, PoiPos[q]) >= haversine(loc, PoiPos[cands[i]])
             /\ <<poi, visit_log, user_tracking, user_stats, user_interests>>'
                  = <<db1.poi, db1.visit_log, db1.user_tracking, db1.user_stats,
                      db1.user_interests>>
   ]_vars

\* The eligible POIs within RADIUS of loc by great-circle distance.
EligibleNear(uid, loc, t) ==
  {p \in Eligible(uid, t) : haversine(loc, PoiPos[p]) <= RADIUS}

\* C20: a one-off report surfaces a POI iff some eligible POI lies within
\* RADIUS of the position by great-circle distance; the POI surfaced is the
\* eligible one with the smallest great-circle distance, and the distance it
\* is reported with is that distance, the one the test was made with.
C20_AutoSurfaceWithinRadius ==
  [][\A uid \in Users, loc \in FieldPositions :
       OnLocation(uid, loc, FALSE)
       => LET near == EligibleNear(uid, loc, now)
          IN /\ outcome'.kind = "SurfacePoi" <=> near # {}
             /\ outcome'.kind = "SurfacePoi"
                  => /\ outcome'.poi \in near
                     /\ \A q \in near : haversine(loc, PoiPos[outcome'.poi])
                                          <= haversine(loc, PoiPos[q])
                     /\ outcome'.dist = haversine(loc, PoiPos[outcome'.poi])
   ]_vars

\* What the database holds for a user: the visit_log rows, the user_tracking
\* row, the user_stats row and the interests.
Account(db, uid) ==
  <<[r \in {x \in DOMAIN db.visit_log : x.user_id = uid} |-> db.visit_log[r]],
    db.user_tracking[uid], db.user_stats[uid], db.user_interests[uid]>>

\* The database with the rows of every user but uid taken out.
Own(db, uid) ==
  [db EXCEPT
     !.visit_log = [r \in {x \in DOMAIN @ : x.user_id = uid} |-> @[r]],
     !.user_tracking = [u \in AllUsers |-> IF u = uid THEN @[u] ELSE NoRow],
     !.user_stats = [u \in AllUsers |-> IF u = uid THEN @[u] ELSE NoRow],
     !.user_interests = [u \in AllUsers |-> IF u = uid THEN @[u] ELSE {}]]

\* What the handler of the update recorded in o may answer and leave for the
\* user on database db.
Alone(db, o, t) ==
  LET rs == IF o.op = "location" THEN on_location(db, o.uid, o.loc, o.live, t)
            ELSE IF o.op = "navigate" THEN on_callback_navigate(db, o.uid, o.arg)
            ELSE on_callback_show_next(db, o.uid, o.arg, t)
  IN {<<Sent(r), r.raised, Account(r.db, o.uid)>> : r \in rs}

\* C21: a unit of work of one user (position report, navigate, clearing the
\* target, show_next with its mark_visit, reset, interest change) leaves the
\* visit_log rows, the user_tracking row, the user_stats row and the
\* interests of every other user as they were, and what the user is answered
\* and left with is what the same update gives on the database without the
\* rows of the other users: in whatever order the units of the users come,
\* no user's outcomes depend on another's.
C21_UsersIndependent ==
  [][LET o == outcome'
     IN /\ \A b \in AllUsers \ {o.uid} : Account(DB', b) = Account(DB, b)
        /\ o.op \in {"location", "navigate", "show_next"}
             => <<Sent(o), o.raised, Account(DB', o.uid)>> \in Alone(Own(DB, o.uid), o, now)
    ]_vars

\* User 1 has just reset an account that had a tracking row, while user 2
\* has a visit_log row, a target, a stored position and an interest.
C21_Witness ==
  /\ outcome.op = "reset"
  /\ outcome.uid = 1
  /\ outcome.pre # NoRow
  /\ \E r \in DOMAIN visit_log : r.user_id = 2
  /\ user_tracking[2] # NoRow
  /\ user_tracking[2].target_poi_id = 1
  /\ user_stats[2] # NoRow
  /\ user_interests[2] # {}

\* C22: the direction of a bearing in [0, 360) is the octant
\* round(bearing / 45) mod 8, and a bearing midway between two octants
\* (22.5, 67.5, ..., 337.5 degrees) goes to the one of the higher index:
\* with the bearing h in half degrees, the octant floor((h + 45) / 90) mod 8.
C22_MidpointsRoundUp ==
  outcome.op = "direction" => outcome.glyph = ((outcome.arg + 45) \div 90) % 8

\* C23: for a user with n distinct visited places next_level_info gives
\* nothing (0, None) exactly when n is at or above the highest threshold, 20;
\* otherwise it gives the title of the lowest threshold above n and what is
\* left to it, threshold - n > 0, and that level is the one directly above
\* the level whose title the user holds.
C23_NextLevelDirectlyAbove ==
  outcome.op = "progress" =>
    LET n == user_stats_visited(visit_log, outcome.uid)
        above == {i \in 1..Len(Thresholds) : Thresholds[i] > n}
        nxt == CHOOSE i \in above : \A j \in above : i <= j
    IN /\ outcome.arg = n
       /\ above = {} <=> n >= 20
       /\ (outcome.kind = NoTitle /\ outcome.dist = 0) <=> above = {}
       /\ above # {} =>
            /\ outcome.kind = LEVELS[nxt].title
            /\ outcome.dist = Thresholds[nxt] - n
            /\ outcome.dist > 0
            /\ level_title(n, 1, Guest)
                 = IF nxt = 1 THEN Guest ELSE LEVELS[nxt - 1].title

\* A user with 12 distinct places is told that 3 are left to the level of 15.
C23_Witness ==
  /\ outcome.op = "progress"
  /\ outcome.uid = 1
  /\ outcome.arg = 12
  /\ outcome.kind = LEVELS[5].title
  /\ outcome.dist = 3

\* The POI is in cool-down for the user: the visit_log holds a row of the two
\* from less than REVISIT_HOURS ago.
InCoolDown(uid, p) ==
  \E r \in BagToSet(visit_log) :
    r.user_id = uid /\ r.poi_id = p /\ now < r.visited_at + RevisitWindow

\* C24: a live report of a user who is Idle leaves the user Idle (a row with
\* the reported position, no target, both flags false), leaves the visit_log
\* as it was, and is answered with ChooseTarget and between one and 3
\* different candidates, none of them in cool-down for the user, when some
\* POI of the catalog is not in cool-down, and with nothing when all are.
C24_IdleReportOffersTargets ==
  [][\A uid \in Users, loc \in FieldPositions :
       (Idle(uid) /\ OnLocation(uid, loc, TRUE))
       => LET cands == outcome'.cands
              free == {p \in poi : ~InCoolDown(uid, p)}
          IN /\ user_tracking'[uid] = TrackingRow(loc, NULL, FALSE, FALSE)
             /\ visit_log' = visit_log
             /\ outcome'.visit = NULL
             /\ \A i \in 1..Len(cands) : cands[i] \in free
             /\ \A i, j \in 1..Len(cands) : cands[i] = cands[j] => i = j
             /\ Len(cands) <= 3
             /\ IF free = {} THEN outcome'.kind = "None" /\ cands = <<>>
                ELSE outcome'.kind = "ChooseTarget" /\ Len(cands) >= 1
   ]_vars

\* An Idle user whose live report was answered with three candidates while
\* more than three POIs were not in cool-down and one was.
C24_Witness ==
  /\ outcome.op = "location"
  /\ outcome.live
  /\ outcome.kind = "ChooseTarget"
  /\ Len(outcome.cands) = 3
  /\ Cardinality({p \in poi : ~InCoolDown(outcome.uid, p)}) = 4
  /\ Idle(outcome.uid)
  /\ Row(outcome.uid) # NoRow

\* C25: navigate (set_navigation_target) leaves the stored position of the
\* user's user_tracking row as it was, and the first position report after
\* it adds the distance from the position stored before the target was
\* chosen to total_distance when that distance is above the noise floor.
C25_SetTargetKeepsPosition ==
  [][\A uid \in Users :
       /\ \A poi_id \in CsvRows :
            (Navigate(uid, poi_id) /\ Row(uid) # NoRow)
            => user_tracking'[uid].last = Row(uid).last
       /\ \A loc \in Positions, live \in BOOLEAN :
            ( /\ outcome.op = "navigate" /\ outcome.uid = uid
              /\ outcome.pre # NoRow /\ outcome.pre.last # NoPos
              /\ user_stats[uid] # NoRow
              /\ OnLocation(uid, loc, live) )
            => LET d == haversine(outcome.pre.last, loc)
               IN user_stats'[uid].total_distance
                    = user_stats[uid].total_distance
                        + (IF d > NOISE_FLOOR THEN d ELSE 0)
   ]_vars

\* C26: a live report of a user whose target p is in the catalog, within
\* RADIUS of p and with notified_arrived false, is answered with the arrival
\* at p, and the unit of work adds a visit_log row (user, p), so that p is
\* then counted among the user's visited places and is in cool-down for the
\* user.
C26_ArrivalRecordsVisit ==
  [][\A uid \in Users, loc \in Positions :
       ( /\ Row(uid) # NoRow
         /\ Row(uid).target_poi_id \in poi
         /\ ~Row(uid).notified_arrived
         /\ haversine(loc, PoiPos[Row(uid).target_poi_id]) <= RADIUS
         /\ OnLocation(uid, loc, TRUE) )
       => LET p == Row(uid).target_poi_id
          IN /\ outcome'.kind = "NavArrived"
             /\ outcome'.poi = p
             /\ visit_log' = visit_log (+) SetToBag({VisitRecord(uid, p, now)})
             /\ visited(visit_log', uid, p, now)
   ]_vars

====
